---- MODULE Spec2Model ----
(***************************************************************************)
(* A model of the command-line utilities under src/server/utils:          *)
(*   insta_caption_extractor.py, insta_media_downloader.py,               *)
(*   insta_login.py and vosk_transcribe.py.                               *)
(*                                                                         *)
(* Each script is a single-threaded process.  A behaviour of Spec runs    *)
(* one script, chosen in Init together with its command line and the      *)
(* environment (file system, library outcomes) it meets.  Init is the     *)
(* state at the start of the script's __main__ block: the module-level    *)
(* imports have succeeded.  Calls into instaloader, vosk, wave, shutil,   *)
(* tempfile and os are modelled by their outcomes: they succeed or raise, *)
(* chosen nondeterministically.                                           *)
(*                                                                         *)
(* Strings the code inspects (URLs, file names) are sequences of          *)
(* one-character strings.                                                 *)
(***************************************************************************)
EXTENDS Integers, Sequences, FiniteSets, TLC

\* ------------------------------------------------------------------ bounds

\* longest URL tail (the part after the optional "h://i" prefix)
MaxUrlLen == 4
\* most utterance boundaries the recognizer signals before the stream ends
MaxChunks == 2
\* largest start time of a word segment
MaxStart == 1

\* ------------------------------------------------------- sequence helpers

None == "None"

\* str.find(c, from): the first index >= from holding c, 0 when there is none
RECURSIVE Find(_, _, _)
Find(s, c, from) ==
    IF from > Len(s) THEN 0
    ELSE IF s[from] = c THEN from
    ELSE Find(s, c, from + 1)

\* str.rfind(c): the last index holding c, 0 when there is none
RECURSIVE RFindFrom(_, _, _)
RFindFrom(s, c, i) ==
    IF i = 0 THEN 0
    ELSE IF s[i] = c THEN i
    ELSE RFindFrom(s, c, i - 1)

RFind(s, c) == RFindFrom(s, c, Len(s))

\* s[i:] with a 1-based i
From(s, i) == SubSeq(s, i, Len(s))

\* str.endswith
EndsWith(s, suffix) ==
    /\ Len(s) >= Len(suffix)
    /\ SubSeq(s, Len(s) - Len(suffix) + 1, Len(s)) = suffix

\* str.split(sep): the list of the maximal sep-free pieces, empty ones kept
RECURSIVE Split(_, _)
Split(s, sep) ==
    LET i == Find(s, sep, 1)
    IN  IF i = 0 THEN << s >>
        ELSE << SubSeq(s, 1, i - 1) >> \o Split(From(s, i + 1), sep)

\* ------------------------------------------------------------ urlparse

\* the letters of the URL alphabet; "h" alone stands for the scheme "https"
SchemeChars == {"h", "a", "b"}

\* urllib.parse.uses_params, restricted to the schemes the alphabet can spell
UsesParams == {<< >>, << "h" >>}

HasScheme(url) ==
    LET i == Find(url, ":", 1)
    IN  i > 1 /\ \A k \in 1..(i - 1) : url[k] \in SchemeChars

UrlScheme(url) ==
    IF HasScheme(url) THEN SubSeq(url, 1, Find(url, ":", 1) - 1) ELSE << >>

\* urllib.parse.urlsplit followed by urlparse's split of ;params, as far as
\* the .path component goes
UrlAfterScheme(url) ==
    IF HasScheme(url) THEN From(url, Find(url, ":", 1) + 1) ELSE url

FirstDelim(s, from) ==
    LET cands == { k \in from..Len(s) : s[k] \in {"/", "?", "#"} }
    IN  IF cands = {} THEN Len(s) + 1
        ELSE CHOOSE k \in cands : \A j \in cands : k <= j

UrlAfterNetloc(url) ==
    LET u == UrlAfterScheme(url)
    IN  IF Len(u) >= 2 /\ SubSeq(u, 1, 2) = << "/", "/" >>
        THEN From(u, FirstDelim(u, 3))
        ELSE u

CutAt(s, c) ==
    LET i == Find(s, c, 1)
    IN  IF i = 0 THEN s ELSE SubSeq(s, 1, i - 1)

SplitParams(p) ==
    LET i == IF Find(p, "/", 1) # 0
             THEN Find(p, ";", RFind(p, "/"))
             ELSE Find(p, ";", 1)
    IN  IF i = 0 THEN p ELSE SubSeq(p, 1, i - 1)

urlparse_path(url) ==
    LET p == CutAt(CutAt(UrlAfterNetloc(url), "#"), "?")
    IN  IF UrlScheme(url) \in UsesParams /\ Find(p, ";", 1) # 0
        THEN SplitParams(p)
        ELSE p

\* ------------------------------------------- extract_shortcode_from_url

\* a copy that forgets to remove the trailing slash
caption_extract_keep_slash(url) ==
    LET parts == Split(urlparse_path(url), "/")
    IN  parts[Len(parts)]

\* insta_caption_extractor.extract_shortcode_from_url
caption_extract_shortcode_from_url(url) ==
    LET path == urlparse_path(url)
        stripped == IF EndsWith(path, << "/" >>)
                    THEN SubSeq(path, 1, Len(path) - 1) ELSE path
        parts == Split(stripped, "/")
    IN  parts[Len(parts)]

\* insta_media_downloader.extract_shortcode_from_url
media_extract_shortcode_from_url(url) ==
    LET path == urlparse_path(url)
        stripped == IF EndsWith(path, << "/" >>)
                    THEN SubSeq(path, 1, Len(path) - 1) ELSE path
        parts == Split(stripped, "/")
    IN  parts[Len(parts)]

\* --------------------------------------------------------------- state

VARIABLES
    url,            \* the URL handed to the extractor
    sc_caption,     \* SpecUrl: the values the caption extractor's copy returned
    sc_media,       \* SpecUrl: the values the media downloader's copy returned
    script,         \* which script this process runs
    argv,           \* sys.argv[1:]
    pc,             \* the statement the process is at
    stdout,         \* what was printed on stdout, in order
    exit_code,      \* the process's exit status, None while it runs
    ret,            \* the value the script's operation returned
    op_calls,       \* calls of the script's operation made by __main__
    escaped,        \* where an exception left the process uncaught, or None
    env_audio,      \* the file at the audio path
    env_model,      \* the directory at the model path
    args,           \* argparse's namespace
    model_loads,    \* calls of vosk.Model(model_path)
    rec_created,    \* KaldiRecognizer was constructed
    chunks_read,    \* non-empty reads of wf.readframes(4000)
    results,        \* transcribe_audio's list of captured results
    session_files,  \* names n with a file ~/.instaloader/session-n
    env_outdir,     \* the output directory: "exists", "absent", "blocked"
    out_files,      \* the files written into output_dir
    loader,         \* the Instaloader client: None, "anonymous", "session"
    session_loads,  \* calls of loader.load_session_from_file
    failures,       \* the steps of the operation that raised, with the kind
    shortcode,      \* the identifier extracted from the URL
    post,           \* the fetched Post
    temp_dir,       \* the TemporaryDirectory: "none", "exists", "removed"
    temp_entries,   \* the entries download_post left in the directory
    cleanups,       \* removals of the temporary directory
    video_file,     \* the entry chosen as the video, or NoFile
    copy_state,     \* shutil.copy2: "none", "done", "failed"
    pending,        \* how the with block is being left: a return or a raise
    auth,           \* the authentication that succeeded: None, "password", "two_factor"
    saves,          \* completed calls of loader.save_session_to_file
    login_tests     \* calls of loader.test_login

urlVars == << url, sc_caption, sc_media >>
procVars == << script, argv, pc, stdout, exit_code, ret, op_calls, escaped >>
trVars == << env_audio, env_model, args, model_loads, rec_created,
             chunks_read, results >>
igVars == << session_files, env_outdir, out_files, loader, session_loads,
             failures, shortcode, post, temp_dir, temp_entries, cleanups,
             video_file, copy_state, pending, auth, saves, login_tests >>
vars == << urlVars, procVars, trVars, igVars >>

NoValue == << >>

\* video_file = None: no entry, as an (empty) file name
NoFile == << >>

\* --------------------------------------------------- SpecUrl: the extractor

UrlChars == {"/", "a", "b", "?", "#", ";"}

UrlPrefixes == { << >>, << "h", ":", "/", "/", "i" >>, << "a", ":" >> }

UrlTails == UNION { [1..k -> UrlChars] : k \in 0..MaxUrlLen }

Urls == { p \o t : p \in UrlPrefixes, t \in UrlTails }

UrlIdle == url = << >> /\ sc_caption = << >> /\ sc_media = << >>

ProcIdle ==
    /\ script = None /\ argv = << >> /\ pc = "idle" /\ stdout = << >>
    /\ exit_code = None /\ ret = NoValue /\ op_calls = 0 /\ escaped = None

IgIdle ==
    /\ session_files = {} /\ env_outdir = "absent" /\ out_files = {}
    /\ loader = None /\ session_loads = 0 /\ failures = {}
    /\ shortcode = << >> /\ post = NoValue /\ temp_dir = "none"
    /\ temp_entries = {} /\ cleanups = 0 /\ video_file = NoFile
    /\ copy_state = "none" /\ pending = NoValue
    /\ auth = None /\ saves = 0 /\ login_tests = 0

TrIdle ==
    /\ env_audio = NoValue /\ env_model = NoValue /\ args = NoValue
    /\ model_loads = 0 /\ rec_created = FALSE /\ chunks_read = 0
    /\ results = << >>

InitUrl ==
    /\ url \in Urls
    /\ sc_caption = << >> /\ sc_media = << >>
    /\ ProcIdle /\ TrIdle /\ IgIdle

CaptionExtract ==
    /\ pc = "idle" /\ sc_caption = << >>
    /\ sc_caption' = << caption_extract_shortcode_from_url(url) >>
    /\ UNCHANGED << url, sc_media, procVars, trVars, igVars >>

MediaExtract ==
    /\ pc = "idle" /\ sc_media = << >>
    /\ sc_media' = << media_extract_shortcode_from_url(url) >>
    /\ UNCHANGED << url, sc_caption, procVars, trVars, igVars >>

NextUrl == CaptionExtract \/ MediaExtract

SpecUrl == InitUrl /\ [][NextUrl]_vars

\* ------------------------------------------------- vosk_transcribe.py

\* the module-level "from vosk import ..." ran before __main__, so the module
\* is importable whenever transcribe_audio is called
VoskImportable == TRUE

check_dependencies ==
    IF VoskImportable THEN << TRUE, "" >>
    ELSE << FALSE, "Vosk module not found" >>

\* the files the audio path can name: none, one wave.open rejects, or a WAV
\* file with its header fields
AudioFiles ==
    { [exists |-> FALSE], [exists |-> TRUE, wave_ok |-> FALSE] }
    \cup [ exists : {TRUE}, wave_ok : {TRUE}, nchannels : {1, 2},
           sampwidth : {1, 2}, comptype : {"NONE", "ULAW"} ]

\* a check that only rejects a readable file of the wrong format
check_audio_file_format_only(audio) ==
    IF audio.exists /\ audio.wave_ok
       /\ (audio.nchannels # 1 \/ audio.sampwidth # 2
           \/ audio.comptype # "NONE")
    THEN << FALSE, "Audio file must be WAV format mono PCM" >>
    ELSE << TRUE, "" >>

check_audio_file(audio) ==
    IF ~audio.exists THEN << FALSE, "Audio file not found" >>
    ELSE IF ~audio.wave_ok THEN << FALSE, "Invalid audio file" >>
    ELSE IF audio.nchannels # 1 \/ audio.sampwidth # 2
            \/ audio.comptype # "NONE"
         THEN << FALSE, "Audio file must be WAV format mono PCM" >>
         ELSE << TRUE, "" >>

required_files == << "am/final.mdl", "conf/mfcc.conf", "conf/model.conf" >>

RequiredSet == { required_files[i] : i \in 1..Len(required_files) }

\* the directories the model path can name
ModelDirs ==
    { [exists |-> FALSE, files |-> {}] }
    \cup { [exists |-> TRUE, files |-> f] : f \in SUBSET RequiredSet }

\* a check that only inspects a directory that exists
check_model_wrong_path(model) ==
    LET missing == { i \in 1..Len(required_files) :
                        required_files[i] \notin model.files }
    IN  IF model.exists /\ missing # {}
        THEN << FALSE, "Invalid model: file not found in model directory" >>
        ELSE << TRUE, "" >>

check_model(model) ==
    LET missing == { i \in 1..Len(required_files) :
                        required_files[i] \notin model.files }
    IN  IF ~model.exists THEN << FALSE, "Model not found" >>
        ELSE IF missing # {}
        THEN << FALSE, "Invalid model: file not found in model directory" >>
        ELSE << TRUE, "" >>

\* argparse of vosk_transcribe.py: one positional audio_path, --model PATH
\* (with a default) and --output PATH
Options == {"--model", "--output"}

DefaultModel == "../../models/vosk-model-en-us-large"

RECURSIVE ParseFrom(_, _)
ParseFrom(toks, ns) ==
    IF ~ns.ok THEN ns
    ELSE IF toks = << >> THEN
        IF ns.audio_path = None THEN [ns EXCEPT !.ok = FALSE] ELSE ns
    ELSE IF Head(toks) \in Options THEN
        IF Len(toks) < 2 \/ toks[2] \in Options
        THEN [ns EXCEPT !.ok = FALSE]
        ELSE ParseFrom(SubSeq(toks, 3, Len(toks)),
                       IF Head(toks) = "--model"
                       THEN [ns EXCEPT !.model = toks[2]]
                       ELSE [ns EXCEPT !.output = toks[2]])
    ELSE IF ns.audio_path # None THEN [ns EXCEPT !.ok = FALSE]
    ELSE ParseFrom(Tail(toks), [ns EXCEPT !.audio_path = Head(toks)])

parse_args(toks) ==
    ParseFrom(toks, [ok |-> TRUE, audio_path |-> None,
                     model |-> DefaultModel, output |-> None])

TrArgvs ==
    { << >>,
      << "a.wav" >>,
      << "a.wav", "--model", "m" >>,
      << "a.wav", "--output", "o.json" >>,
      << "--output", "o.json", "a.wav", "--model", "m" >>,
      << "--model", "m" >>,
      << "a.wav", "--model" >>,
      << "a.wav", "b.wav" >> }

\* word segments of a recognizer result
Words == [ word : {"a", "b"}, start : 0..MaxStart ]

WordLists ==
    { << >> } \cup { << w >> : w \in Words }
    \cup { << v, w >> : v \in { x \in Words : x.word = "a" },
                       w \in { x \in Words : x.word = "b" } }

RECURSIVE JoinSpace(_)
\* " ".join(list)
JoinSpace(list) ==
    IF list = << >> THEN << >>
    ELSE IF Len(list) = 1 THEN list[1]
    ELSE list[1] \o << " " >> \o JoinSpace(Tail(list))

\* json.loads(rec.Result()) with SetWords(True): the text, and the word
\* segments under "result" when there are any
PartResult(ws) ==
    IF ws = << >> THEN [ text |-> << >> ]
    ELSE [ text |-> JoinSpace([ i \in 1..Len(ws) |-> << ws[i].word >> ]),
           result |-> ws ]

PartResults == { PartResult(ws) : ws \in WordLists }

RECURSIVE Extend(_, _)
\* the loop over results extending full_result["result"]
Extend(acc, rs) ==
    IF rs = << >> THEN acc
    ELSE Extend(IF "result" \in DOMAIN Head(rs)
                THEN acc \o Head(rs).result ELSE acc, Tail(rs))

RECURSIVE InsertByStart(_, _)
\* insert w after every element whose start is <= w.start
InsertByStart(sorted, w) ==
    IF sorted = << >> THEN << w >>
    ELSE IF Head(sorted).start <= w.start
         THEN << Head(sorted) >> \o InsertByStart(Tail(sorted), w)
         ELSE << w >> \o sorted

RECURSIVE SortFrom(_, _)
SortFrom(acc, rest) ==
    IF rest = << >> THEN acc
    ELSE SortFrom(InsertByStart(acc, Head(rest)), Tail(rest))

\* the sort is left out
sort_by_start_skipped(list) == list

\* list.sort(key=lambda x: x.get("start", 0)): a stable sort
sort_by_start(list) == SortFrom(<< >>, list)

\* the list comprehension over results that have a "text"
Texts(rs) ==
    LET idx == { i \in 1..Len(rs) : "text" \in DOMAIN rs[i] }
        F[i \in 0..Len(rs)] ==
            IF i = 0 THEN << >>
            ELSE IF i \in idx THEN Append(F[i - 1], rs[i].text)
            ELSE F[i - 1]
    IN  F[Len(rs)]

combine_results(rs) ==
    LET all == Extend(<< >>, rs)
    IN  [ text |-> JoinSpace(Texts(rs)),
          result |-> IF all # << >> THEN sort_by_start(all) ELSE all,
          metadata |-> TRUE ]

TrInit ==
    /\ script = "transcribe"
    /\ argv \in TrArgvs
    /\ env_audio \in AudioFiles
    /\ env_model \in ModelDirs
    /\ pc = "tr_main" /\ stdout = << >> /\ exit_code = None /\ ret = NoValue
    /\ op_calls = 0 /\ escaped = None
    /\ args = NoValue /\ model_loads = 0 /\ rec_created = FALSE
    /\ chunks_read = 0 /\ results = << >>

Line == [ type |-> "line" ]
Json(v) == [ type |-> "json", body |-> v ]

\* args = parser.parse_args(): a command line argparse rejects ends the
\* process with status 2 and a usage message on stderr
TrParseArgs ==
    /\ pc = "tr_main"
    /\ LET ns == parse_args(argv)
       IN  IF ns.ok
           THEN /\ args' = ns
                /\ op_calls' = op_calls + 1
                /\ pc' = "tr_check_deps"
                /\ UNCHANGED exit_code
           ELSE /\ pc' = "exited"
                /\ exit_code' = 2
                /\ UNCHANGED << args, op_calls >>
    /\ UNCHANGED << escaped, igVars, urlVars, script, argv, stdout, ret, env_audio, env_model,
                    model_loads, rec_created, chunks_read, results >>

TrReturn(v) ==
    /\ ret' = v
    /\ pc' = "tr_returned"

TrCheckDeps ==
    /\ pc = "tr_check_deps"
    /\ IF ~check_dependencies[1]
       THEN TrReturn([ error |-> check_dependencies[2],
                       error_type |-> "DEPENDENCY_ERROR" ])
       ELSE pc' = "tr_check_audio" /\ UNCHANGED ret
    /\ UNCHANGED << op_calls, escaped, igVars, urlVars, script, argv, stdout, exit_code, trVars >>

TrCheckAudio ==
    /\ pc = "tr_check_audio"
    /\ LET r == check_audio_file(env_audio)
       IN  IF ~r[1]
           THEN TrReturn([ error |-> r[2], error_type |-> "AUDIO_FILE_ERROR" ])
           ELSE pc' = "tr_check_model" /\ UNCHANGED ret
    /\ UNCHANGED << op_calls, escaped, igVars, urlVars, script, argv, stdout, exit_code, trVars >>

TrCheckModel ==
    /\ pc = "tr_check_model"
    /\ LET r == check_model(env_model)
       IN  IF ~r[1]
           THEN TrReturn([ error |-> r[2], error_type |-> "MODEL_ERROR" ])
           ELSE pc' = "tr_load_model" /\ UNCHANGED ret
    /\ UNCHANGED << op_calls, escaped, igVars, urlVars, script, argv, stdout, exit_code, trVars >>

\* the except clause of transcribe_audio: two lines printed, an error returned
TrRaise ==
    /\ stdout' = stdout \o << Line, Line >>
    /\ TrReturn([ error |-> "exception", error_type |-> "TRANSCRIPTION_ERROR",
                  traceback |-> "traceback" ])

\* SetLogLevel, the "Loading model" line, Model(model_path), "Model loaded"
TrLoadModel ==
    /\ pc = "tr_load_model"
    /\ model_loads' = model_loads + 1
    /\ \E ok \in BOOLEAN :
        IF ok
        THEN /\ stdout' = stdout \o << Line, Line >>
             /\ pc' = "tr_open_audio"
             /\ UNCHANGED ret
        ELSE /\ stdout' = stdout \o << Line, Line, Line >>
             /\ TrReturn([ error |-> "exception",
                           error_type |-> "TRANSCRIPTION_ERROR",
                           traceback |-> "traceback" ])
    /\ UNCHANGED << op_calls, escaped, igVars, urlVars, script, argv, exit_code, env_audio, env_model,
                    args, rec_created, chunks_read, results >>

\* wave.open, the four "Audio ..." lines
TrOpenAudio ==
    /\ pc = "tr_open_audio"
    /\ \E ok \in BOOLEAN :
        IF ok
        THEN /\ stdout' = stdout \o << Line, Line, Line, Line >>
             /\ pc' = "tr_create_rec"
             /\ UNCHANGED ret
        ELSE TrRaise
    /\ UNCHANGED << op_calls, escaped, igVars, urlVars, script, argv, exit_code, trVars >>

\* KaldiRecognizer(model, rate), SetWords(True), "Processing audio..."
TrCreateRecognizer ==
    /\ pc = "tr_create_rec"
    /\ \E ok \in BOOLEAN :
        IF ok
        THEN /\ rec_created' = TRUE
             /\ stdout' = Append(stdout, Line)
             /\ pc' = "tr_loop"
             /\ UNCHANGED ret
        ELSE /\ TrRaise
             /\ UNCHANGED rec_created
    /\ UNCHANGED << op_calls, escaped, igVars, urlVars, script, argv, exit_code, env_audio, env_model,
                    args, model_loads, chunks_read, results >>

\* one turn of the while loop that read a non-empty chunk: the recognizer
\* signals an utterance boundary, and its result is captured, or it does not
TrReadChunk ==
    /\ pc = "tr_loop"
    /\ chunks_read < MaxChunks
    /\ chunks_read' = chunks_read + 1
    /\ \/ \E r \in PartResults : results' = Append(results, r)
       \/ UNCHANGED results
    /\ UNCHANGED << igVars, urlVars, procVars, env_audio, env_model, args,
                    model_loads, rec_created >>

\* readframes or AcceptWaveform or json.loads raises inside the loop
TrLoopRaise ==
    /\ pc = "tr_loop"
    /\ TrRaise
    /\ UNCHANGED << op_calls, escaped, igVars, urlVars, script, argv, exit_code, trVars >>

\* the read that returns no data ends the loop; FinalResult is captured,
\* "Audio processed" printed, the results combined and sorted
TrFinish ==
    /\ pc = "tr_loop"
    /\ \E r \in PartResults :
        /\ results' = Append(results, r)
        /\ ret' = combine_results(results')
    /\ stdout' = Append(stdout, Line)
    /\ pc' = "tr_save"
    /\ UNCHANGED << op_calls, escaped, igVars, urlVars, script, argv, exit_code, env_audio, env_model,
                    args, model_loads, rec_created, chunks_read >>

\* if output_path: write the JSON file, print "Transcription saved"
TrSave ==
    /\ pc = "tr_save"
    /\ IF args.output = None
       THEN pc' = "tr_returned" /\ UNCHANGED << stdout, ret >>
       ELSE \E ok \in BOOLEAN :
            IF ok
            THEN /\ stdout' = Append(stdout, Line)
                 /\ pc' = "tr_returned"
                 /\ UNCHANGED ret
            ELSE TrRaise
    /\ UNCHANGED << op_calls, escaped, igVars, urlVars, script, argv, exit_code, trVars >>

\* print(json.dumps(result)); the script ends
TrPrintResult ==
    /\ pc = "tr_returned"
    /\ stdout' = Append(stdout, Json(ret))
    /\ pc' = "exited"
    /\ exit_code' = 0
    /\ UNCHANGED << op_calls, escaped, igVars, urlVars, script, argv, ret, trVars >>

TrNext ==
    \/ TrParseArgs \/ TrCheckDeps \/ TrCheckAudio \/ TrCheckModel
    \/ TrLoadModel \/ TrOpenAudio \/ TrCreateRecognizer \/ TrReadChunk
    \/ TrLoopRaise \/ TrFinish \/ TrSave \/ TrPrintResult

\* ------------------------------------- the two instaloader fetch scripts

\* the exception classes the except clauses tell apart
ExcKinds == {"ConnectionException", "LoginRequiredException", "Exception"}

\* what a step does: it succeeds, or raises one of the kinds
Outcomes(kinds) == {"ok"} \cup kinds

\* the URLs given on the command line: https://i/p/ab/, https://i/ab and
\* https://i/p/b//
IgUrls ==
    { << "h", ":", "/", "/", "i", "/", "p", "/", "a", "b", "/" >>,
      << "h", ":", "/", "/", "i", "/", "a", "b" >>,
      << "h", ":", "/", "/", "i", "/", "p", "/", "b", "/", "/" >> }

\* the Post objects Post.from_shortcode returns
Posts == [ caption : {None, "caption text"}, is_video : BOOLEAN ]

\* post.caption if post.caption else "No caption available"
caption_or_default(p) ==
    IF p.caption # None THEN p.caption ELSE "No caption available"

\* the session file of the scripts' fixed session name exists
default_session_exists == "default" \in session_files

\* ---------------------------------------------- insta_caption_extractor.py

CapInit ==
    /\ script = "caption"
    /\ argv \in { << >> } \cup { << u >> : u \in IgUrls }
    /\ session_files \in { {}, {"default"} }
    /\ pc = "cap_main" /\ stdout = << >> /\ exit_code = None /\ ret = NoValue
    /\ op_calls = 0 /\ escaped = None
    /\ env_outdir = "absent" /\ out_files = {}
    /\ loader = None /\ session_loads = 0 /\ failures = {}
    /\ shortcode = << >> /\ post = NoValue /\ temp_dir = "none"
    /\ temp_entries = {} /\ cleanups = 0 /\ video_file = NoFile
    /\ copy_state = "none" /\ pending = NoValue
    /\ auth = None /\ saves = 0 /\ login_tests = 0

\* the three except clauses of get_post_caption
caption_except(kind) ==
    IF kind = "ConnectionException"
    THEN [ caught |-> TRUE,
           value |-> [ success |-> FALSE,
                       error |-> "Connection error",
                       caption |-> "Failed to extract caption" ] ]
    ELSE IF kind = "LoginRequiredException"
    THEN [ caught |-> TRUE,
           value |-> [ success |-> FALSE,
                       error |-> "Login required",
                       caption |-> "Failed to extract caption" ] ]
    ELSE [ caught |-> TRUE,
           value |-> [ success |-> FALSE,
                       error |-> "str(e)",
                       caption |-> "Failed to extract caption" ] ]

\* an exception raised by `step` inside get_post_caption's try block
CapRaise(step, kind) ==
    /\ failures' = failures \cup { << step, kind >> }
    /\ IF caption_except(kind).caught
       THEN /\ ret' = caption_except(kind).value
            /\ pc' = "cap_returned"
            /\ UNCHANGED << exit_code, escaped >>
       ELSE /\ pc' = "exited"
            /\ exit_code' = 1
            /\ escaped' = step
            /\ UNCHANGED ret

\* if len(sys.argv) < 2: print the failure and exit(1); else call the fetch
CapMain ==
    /\ pc = "cap_main"
    /\ IF Len(argv) < 1
       THEN /\ stdout' = Append(stdout,
                    Json([ success |-> FALSE, error |-> "No URL provided" ]))
            /\ exit_code' = 1
            /\ pc' = "exited"
            /\ UNCHANGED << url, op_calls >>
       ELSE /\ url' = argv[1]
            /\ op_calls' = op_calls + 1
            /\ pc' = "cap_construct"
            /\ UNCHANGED << stdout, exit_code >>
    /\ UNCHANGED << sc_caption, sc_media, script, argv, ret, escaped,
                    trVars, igVars >>

\* loader = instaloader.Instaloader(...)
CapConstruct ==
    /\ pc = "cap_construct"
    /\ \E o \in Outcomes({"Exception"}) :
        IF o = "ok"
        THEN /\ loader' = "anonymous"
             /\ pc' = "cap_session"
             /\ UNCHANGED << ret, exit_code, escaped, failures >>
        ELSE /\ CapRaise("construct", o)
             /\ UNCHANGED loader
    /\ UNCHANGED << auth, saves, login_tests, urlVars, script, argv, stdout, op_calls, trVars,
                    session_files, env_outdir, out_files, session_loads,
                    shortcode, post, temp_dir, temp_entries, cleanups,
                    video_file, copy_state, pending >>

\* the inner try: load the default session when its file exists; whatever
\* it raises is reported on stderr and dropped
CapLoadSession ==
    /\ pc = "cap_session"
    /\ IF default_session_exists
       THEN /\ session_loads' = session_loads + 1
            /\ \E o \in Outcomes(ExcKinds) :
                IF o = "ok"
                THEN loader' = "session" /\ UNCHANGED failures
                ELSE /\ failures' = failures \cup { << "session_load", o >> }
                     /\ UNCHANGED loader
       ELSE UNCHANGED << session_loads, loader, failures >>
    /\ pc' = "cap_fetch"
    /\ UNCHANGED << auth, saves, login_tests, urlVars, script, argv, stdout, exit_code, ret, op_calls,
                    escaped, trVars, session_files, env_outdir, out_files,
                    shortcode, post, temp_dir, temp_entries, cleanups,
                    video_file, copy_state, pending >>

\* shortcode = extract_shortcode_from_url(url); the random sleep;
\* post = Post.from_shortcode(loader.context, shortcode)
CapFetchPost ==
    /\ pc = "cap_fetch"
    /\ shortcode' = caption_extract_shortcode_from_url(url)
    /\ \E o \in Outcomes(ExcKinds) :
        IF o = "ok"
        THEN /\ \E p \in Posts : post' = p
             /\ pc' = "cap_result"
             /\ UNCHANGED << ret, exit_code, escaped, failures >>
        ELSE /\ CapRaise("fetch", o)
             /\ UNCHANGED post
    /\ UNCHANGED << auth, saves, login_tests, urlVars, script, argv, stdout, op_calls, trVars,
                    session_files, env_outdir, out_files, loader,
                    session_loads, temp_dir, temp_entries, cleanups,
                    video_file, copy_state, pending >>

\* the result dictionary is built from the post's attributes, which the
\* library may still have to request
CapBuildResult ==
    /\ pc = "cap_result"
    /\ \E o \in Outcomes(ExcKinds) :
        IF o = "ok"
        THEN /\ ret' = [ success |-> TRUE,
                         caption |-> caption_or_default(post),
                         username |-> "owner_username",
                         likes |-> "likes",
                         comments |-> "comments",
                         date |-> "date_local.isoformat()",
                         is_video |-> post.is_video,
                         shortcode |-> shortcode ]
             /\ pc' = "cap_returned"
             /\ UNCHANGED << exit_code, escaped, failures >>
        ELSE CapRaise("metadata", o)
    /\ UNCHANGED << auth, saves, login_tests, urlVars, script, argv, stdout, op_calls, trVars,
                    session_files, env_outdir, out_files, loader,
                    session_loads, shortcode, post, temp_dir, temp_entries,
                    cleanups, video_file, copy_state, pending >>

\* print(json.dumps(result))
CapPrintResult ==
    /\ pc = "cap_returned"
    /\ stdout' = Append(stdout, Json(ret))
    /\ exit_code' = 0
    /\ pc' = "exited"
    /\ UNCHANGED << urlVars, script, argv, ret, op_calls, escaped, trVars,
                    igVars >>

CapNext ==
    \/ CapMain \/ CapConstruct \/ CapLoadSession \/ CapFetchPost
    \/ CapBuildResult \/ CapPrintResult

\* ---------------------------------------------- insta_media_downloader.py

OutputDir == << "o", "u", "t" >>

\* the entries download_post can leave in the target directory
BundleFiles ==
    { << "v", ".", "m", "p", "4" >>,
      << "w", ".", "m", "p", "4" >>,
      << "p", ".", "j", "p", "g" >>,
      << "m", "p", "4" >>,
      << "v", ".", "m", "p", "4", ".", "x" >> }

DlInit ==
    /\ script = "media"
    /\ argv \in { << >>, << OutputDir >> }
                \cup { << u >> : u \in IgUrls }
                \cup { << u, OutputDir >> : u \in IgUrls }
    /\ session_files \in { {}, {"default"} }
    /\ env_outdir \in {"exists", "absent", "blocked"}
    /\ pc = "dl_main" /\ stdout = << >> /\ exit_code = None /\ ret = NoValue
    /\ op_calls = 0 /\ escaped = None
    /\ out_files = {}
    /\ loader = None /\ session_loads = 0 /\ failures = {}
    /\ shortcode = << >> /\ post = NoValue /\ temp_dir = "none"
    /\ temp_entries = {} /\ cleanups = 0 /\ video_file = NoFile
    /\ copy_state = "none" /\ pending = NoValue
    /\ auth = None /\ saves = 0 /\ login_tests = 0

\* the three except clauses of download_instagram_media, without the last
media_except_no_catch_all(kind) ==
    IF kind = "ConnectionException"
    THEN [ caught |-> TRUE,
           value |-> [ success |-> FALSE, error |-> "Connection error",
                       media_path |-> None, caption |-> None ] ]
    ELSE IF kind = "LoginRequiredException"
    THEN [ caught |-> TRUE,
           value |-> [ success |-> FALSE, error |-> "Login required",
                       media_path |-> None, caption |-> None ] ]
    ELSE [ caught |-> FALSE, value |-> NoValue ]

\* the three except clauses of download_instagram_media
media_except(kind) ==
    IF kind = "ConnectionException"
    THEN [ caught |-> TRUE,
           value |-> [ success |-> FALSE, error |-> "Connection error",
                       media_path |-> None, caption |-> None ] ]
    ELSE IF kind = "LoginRequiredException"
    THEN [ caught |-> TRUE,
           value |-> [ success |-> FALSE, error |-> "Login required",
                       media_path |-> None, caption |-> None ] ]
    ELSE [ caught |-> TRUE,
           value |-> [ success |-> FALSE, error |-> "str(e)",
                       media_path |-> None, caption |-> None ] ]

\* a test for the extension that forgets the dot
is_video_entry_no_dot(file) == EndsWith(file, << "m", "p", "4" >>)

\* file.endswith('.mp4')
is_video_entry(file) == EndsWith(file, << ".", "m", "p", "4" >>)

\* f"reel_{shortcode}.mp4" under output_dir
output_path(dir, sc) ==
    dir \o << "/" >> \o << "r", "e", "e", "l", "_" >> \o sc
    \o << ".", "m", "p", "4" >>

\* a check for fewer than one argument
media_args_missing_one(a) == Len(a) < 1

\* len(sys.argv) < 3
media_args_missing(a) == Len(a) < 2

\* an exception raised by `step` inside the try block, outside the with
DlRaise(step, kind) ==
    /\ failures' = failures \cup { << step, kind >> }
    /\ IF media_except(kind).caught
       THEN /\ ret' = media_except(kind).value
            /\ pc' = "dl_returned"
            /\ UNCHANGED << exit_code, escaped >>
       ELSE /\ pc' = "exited"
            /\ exit_code' = 1
            /\ escaped' = step
            /\ UNCHANGED ret

\* an exception raised by `step` inside the with block: the block is left
\* through TemporaryDirectory.__exit__ before an except clause runs
DlRaiseInWith(step, kind) ==
    /\ failures' = failures \cup { << step, kind >> }
    /\ pending' = [ how |-> "raise", step |-> step, kind |-> kind ]
    /\ pc' = "dl_with_exit"

\* a return statement inside the with block
DlReturnInWith(v) ==
    /\ pending' = [ how |-> "return", value |-> v ]
    /\ pc' = "dl_with_exit"

\* if len(sys.argv) < 3: print the usage failure and exit(1); else read
\* url and output_dir
DlMain ==
    /\ pc = "dl_main"
    /\ IF media_args_missing(argv)
       THEN /\ stdout' = Append(stdout,
                    Json([ success |-> FALSE, error |-> "Usage" ]))
            /\ exit_code' = 1
            /\ pc' = "exited"
            /\ UNCHANGED << url, escaped >>
       ELSE IF Len(argv) < 2
       THEN \* sys.argv[2] raises IndexError
            /\ exit_code' = 1
            /\ escaped' = "argv"
            /\ pc' = "exited"
            /\ UNCHANGED << url, stdout >>
       ELSE /\ url' = argv[1]
            /\ pc' = "dl_makedirs"
            /\ UNCHANGED << stdout, exit_code, escaped >>
    /\ UNCHANGED << sc_caption, sc_media, script, argv, ret, op_calls,
                    trVars, igVars >>

\* os.makedirs(output_dir, exist_ok=True), outside any try; then the call
DlMakedirs ==
    /\ pc = "dl_makedirs"
    /\ IF env_outdir = "blocked"
       THEN /\ exit_code' = 1
            /\ escaped' = "makedirs"
            /\ pc' = "exited"
            /\ UNCHANGED << env_outdir, op_calls >>
       ELSE /\ env_outdir' = "exists"
            /\ op_calls' = op_calls + 1
            /\ pc' = "dl_construct"
            /\ UNCHANGED << exit_code, escaped >>
    /\ UNCHANGED << auth, saves, login_tests, urlVars, script, argv, stdout, ret, trVars,
                    session_files, out_files, loader, session_loads,
                    failures, shortcode, post, temp_dir, temp_entries,
                    cleanups, video_file, copy_state, pending >>

\* loader = instaloader.Instaloader(...)
DlConstruct ==
    /\ pc = "dl_construct"
    /\ \E o \in Outcomes({"Exception"}) :
        IF o = "ok"
        THEN /\ loader' = "anonymous"
             /\ pc' = "dl_session"
             /\ UNCHANGED << ret, exit_code, escaped, failures >>
        ELSE /\ DlRaise("construct", o)
             /\ UNCHANGED loader
    /\ UNCHANGED << auth, saves, login_tests, urlVars, script, argv, stdout, op_calls, trVars,
                    session_files, env_outdir, out_files, session_loads,
                    shortcode, post, temp_dir, temp_entries, cleanups,
                    video_file, copy_state, pending >>

\* the inner try: load the default session when its file exists; whatever
\* it raises is reported on stderr and dropped
DlLoadSession ==
    /\ pc = "dl_session"
    /\ IF default_session_exists
       THEN /\ session_loads' = session_loads + 1
            /\ \E o \in Outcomes(ExcKinds) :
                IF o = "ok"
                THEN loader' = "session" /\ UNCHANGED failures
                ELSE /\ failures' = failures \cup { << "session_load", o >> }
                     /\ UNCHANGED loader
       ELSE UNCHANGED << session_loads, loader, failures >>
    /\ pc' = "dl_fetch"
    /\ UNCHANGED << auth, saves, login_tests, urlVars, script, argv, stdout, exit_code, ret, op_calls,
                    escaped, trVars, session_files, env_outdir, out_files,
                    shortcode, post, temp_dir, temp_entries, cleanups,
                    video_file, copy_state, pending >>

\* shortcode = extract_shortcode_from_url(url); the random sleep;
\* post = Post.from_shortcode(loader.context, shortcode)
DlFetchPost ==
    /\ pc = "dl_fetch"
    /\ shortcode' = media_extract_shortcode_from_url(url)
    /\ \E o \in Outcomes(ExcKinds) :
        IF o = "ok"
        THEN /\ \E p \in Posts : post' = p
             /\ pc' = "dl_mktemp"
             /\ UNCHANGED << ret, exit_code, escaped, failures >>
        ELSE /\ DlRaise("fetch", o)
             /\ UNCHANGED post
    /\ UNCHANGED << auth, saves, login_tests, urlVars, script, argv, stdout, op_calls, trVars,
                    session_files, env_outdir, out_files, loader,
                    session_loads, temp_dir, temp_entries, cleanups,
                    video_file, copy_state, pending >>

\* with tempfile.TemporaryDirectory() as temp_dir
DlMakeTemp ==
    /\ pc = "dl_mktemp"
    /\ \E o \in Outcomes({"Exception"}) :
        IF o = "ok"
        THEN /\ temp_dir' = "exists"
             /\ pc' = "dl_download"
             /\ UNCHANGED << ret, exit_code, escaped, failures >>
        ELSE /\ DlRaise("mktemp", o)
             /\ UNCHANGED temp_dir
    /\ UNCHANGED << auth, saves, login_tests, urlVars, script, argv, stdout, op_calls, trVars,
                    session_files, env_outdir, out_files, loader,
                    session_loads, shortcode, post, temp_entries, cleanups,
                    video_file, copy_state, pending >>

\* loader.download_post(post, target=temp_dir)
DlDownload ==
    /\ pc = "dl_download"
    /\ \E files \in SUBSET BundleFiles : temp_entries' = files
    /\ \E o \in Outcomes(ExcKinds) :
        IF o = "ok"
        THEN pc' = "dl_find" /\ UNCHANGED << failures, pending >>
        ELSE DlRaiseInWith("download", o)
    /\ UNCHANGED << auth, saves, login_tests, urlVars, script, argv, stdout, exit_code, ret, op_calls,
                    escaped, trVars, session_files, env_outdir, out_files,
                    loader, session_loads, shortcode, post, temp_dir,
                    cleanups, video_file, copy_state >>

\* the loop over os.listdir(temp_dir), in whatever order it lists, up to
\* the first entry with the video extension; the failure return when the
\* loop found none
DlFindVideo ==
    /\ pc = "dl_find"
    /\ LET videos == { f \in temp_entries : is_video_entry(f) }
       IN  IF videos # {}
           THEN /\ \E f \in videos : video_file' = f
                /\ pc' = "dl_copy"
                /\ UNCHANGED pending
           ELSE /\ DlReturnInWith(
                      [ success |-> FALSE,
                        error |-> "No video file found in the downloaded content",
                        media_path |-> None, caption |-> None ])
                /\ UNCHANGED video_file
    /\ UNCHANGED << auth, saves, login_tests, urlVars, script, argv, stdout, exit_code, ret, op_calls,
                    escaped, trVars, session_files, env_outdir, out_files,
                    loader, session_loads, failures, shortcode, post,
                    temp_dir, temp_entries, cleanups, copy_state >>

\* os.listdir(temp_dir) raises
DlListdirRaise ==
    /\ pc = "dl_find"
    /\ DlRaiseInWith("listdir", "Exception")
    /\ UNCHANGED << auth, saves, login_tests, urlVars, script, argv, stdout, exit_code, ret, op_calls,
                    escaped, trVars, session_files, env_outdir, out_files,
                    loader, session_loads, shortcode, post, temp_dir,
                    temp_entries, cleanups, video_file, copy_state >>

\* shutil.copy2(video_file, output_path); a copy that fails may have
\* created the destination already
DlCopy ==
    /\ pc = "dl_copy"
    /\ \E o \in Outcomes({"Exception"}) :
        IF o = "ok"
        THEN /\ copy_state' = "done"
             /\ out_files' = out_files \cup { output_path(OutputDir, shortcode) }
             /\ pc' = "dl_metadata"
             /\ UNCHANGED << failures, pending >>
        ELSE /\ copy_state' = "failed"
             /\ \E partial \in BOOLEAN :
                  out_files' = IF partial
                               THEN out_files
                                    \cup { output_path(OutputDir, shortcode) }
                               ELSE out_files
             /\ DlRaiseInWith("copy", o)
    /\ UNCHANGED << auth, saves, login_tests, urlVars, script, argv, stdout, exit_code, ret, op_calls,
                    escaped, trVars, session_files, env_outdir, loader,
                    session_loads, shortcode, post, temp_dir, temp_entries,
                    cleanups, video_file >>

\* the caption and the success dictionary, built from the post's
\* attributes, which the library may still have to request
DlBuildResult ==
    /\ pc = "dl_metadata"
    /\ \E o \in Outcomes(ExcKinds) :
        IF o = "ok"
        THEN /\ DlReturnInWith(
                  [ success |-> TRUE,
                    media_path |-> output_path(OutputDir, shortcode),
                    caption |-> caption_or_default(post),
                    username |-> "owner_username",
                    likes |-> "likes",
                    comments |-> "comments",
                    date |-> "date_local.isoformat()",
                    is_video |-> post.is_video,
                    shortcode |-> shortcode ])
             /\ UNCHANGED failures
        ELSE DlRaiseInWith("metadata", o)
    /\ UNCHANGED << auth, saves, login_tests, urlVars, script, argv, stdout, exit_code, ret, op_calls,
                    escaped, trVars, session_files, env_outdir, out_files,
                    loader, session_loads, shortcode, post, temp_dir,
                    temp_entries, cleanups, video_file, copy_state >>

\* a directory made by hand and removed only before a return
DlWithExit_return_only ==
    /\ pc = "dl_with_exit"
    /\ IF pending.how = "return"
       THEN /\ temp_dir' = "removed"
            /\ cleanups' = cleanups + 1
            /\ ret' = pending.value
            /\ pc' = "dl_returned"
            /\ UNCHANGED << exit_code, escaped >>
       ELSE /\ ret' = media_except(pending.kind).value
            /\ pc' = "dl_returned"
            /\ UNCHANGED << temp_dir, cleanups, exit_code, escaped >>
    /\ UNCHANGED << temp_entries, auth, saves, login_tests, urlVars, script, argv, stdout, op_calls, trVars,
                    session_files, env_outdir, out_files, loader,
                    session_loads, failures, shortcode, post, video_file,
                    copy_state, pending >>

\* leaving the with block: TemporaryDirectory.__exit__ removes the directory
\* and its contents; then the return completes, or the exception reaches
\* the except clauses
DlWithExit ==
    /\ pc = "dl_with_exit"
    /\ temp_dir' = "removed"
    /\ cleanups' = cleanups + 1
    /\ IF pending.how = "return"
       THEN /\ ret' = pending.value
            /\ pc' = "dl_returned"
            /\ UNCHANGED << exit_code, escaped >>
       ELSE IF media_except(pending.kind).caught
       THEN /\ ret' = media_except(pending.kind).value
            /\ pc' = "dl_returned"
            /\ UNCHANGED << exit_code, escaped >>
       ELSE /\ pc' = "exited"
            /\ exit_code' = 1
            /\ escaped' = pending.step
            /\ UNCHANGED ret
    /\ UNCHANGED << temp_entries, auth, saves, login_tests, urlVars, script, argv, stdout, op_calls, trVars,
                    session_files, env_outdir, out_files, loader,
                    session_loads, failures, shortcode, post, video_file,
                    copy_state, pending >>

\* print(json.dumps(result))
DlPrintResult ==
    /\ pc = "dl_returned"
    /\ stdout' = Append(stdout, Json(ret))
    /\ exit_code' = 0
    /\ pc' = "exited"
    /\ UNCHANGED << urlVars, script, argv, ret, op_calls, escaped, trVars,
                    igVars >>

DlNext ==
    \/ DlMain \/ DlMakedirs \/ DlConstruct \/ DlLoadSession \/ DlFetchPost
    \/ DlMakeTemp \/ DlDownload \/ DlFindVideo \/ DlListdirRaise \/ DlCopy
    \/ DlBuildResult \/ DlWithExit \/ DlPrintResult

\* --------------------------------------------------------- insta_login.py

SessionNames == {"default", "work"}

LgOptions == {"--username", "--check", "--session"}

RECURSIVE LgParseFrom(_, _)
\* argparse of insta_login.py: --username U, --check, --session NAME
LgParseFrom(toks, ns) ==
    IF ~ns.ok \/ toks = << >> THEN ns
    ELSE IF Head(toks) = "--check"
    THEN LgParseFrom(Tail(toks), [ns EXCEPT !.check = TRUE])
    ELSE IF Head(toks) \in {"--username", "--session"} THEN
        IF Len(toks) < 2 \/ toks[2] \in LgOptions
        THEN [ns EXCEPT !.ok = FALSE]
        ELSE LgParseFrom(SubSeq(toks, 3, Len(toks)),
                         IF Head(toks) = "--username"
                         THEN [ns EXCEPT !.username = toks[2]]
                         ELSE [ns EXCEPT !.session = toks[2]])
    ELSE [ns EXCEPT !.ok = FALSE]

lg_parse_args(toks) ==
    LgParseFrom(toks, [ok |-> TRUE, check |-> FALSE, username |-> None,
                       session |-> "default"])

LgArgvs ==
    { << >>,
      << "--check" >>,
      << "--check", "--session", "work" >>,
      << "--session", "work" >>,
      << "--username", "user" >>,
      << "--check", "--session" >>,
      << "extra" >> }

LgInit ==
    /\ script = "login"
    /\ argv \in LgArgvs
    /\ session_files \in SUBSET SessionNames
    /\ pc = "lg_main" /\ stdout = << >> /\ exit_code = None /\ ret = NoValue
    /\ op_calls = 0 /\ escaped = None
    /\ env_outdir = "absent" /\ out_files = {}
    /\ loader = None /\ session_loads = 0 /\ failures = {}
    /\ shortcode = << >> /\ post = NoValue /\ temp_dir = "none"
    /\ temp_entries = {} /\ cleanups = 0 /\ video_file = NoFile
    /\ copy_state = "none" /\ pending = NoValue
    /\ auth = None /\ saves = 0 /\ login_tests = 0

\* a session file is looked for under the default name, whatever was asked
session_file_exists_default(name) == "default" \in session_files

\* os.path.exists(~/.instaloader/session-<name>)
session_file_exists(name) == name \in session_files

LgUnchangedIg ==
    UNCHANGED << env_outdir, out_files, shortcode, post, temp_dir,
                 temp_entries, cleanups, video_file, copy_state, pending >>

\* args = parser.parse_args(); check_session or login_to_instagram is called
LgMain ==
    /\ pc = "lg_main"
    /\ LET ns == lg_parse_args(argv)
       IN  IF ~ns.ok
           THEN /\ pc' = "exited"
                /\ exit_code' = 2
                /\ UNCHANGED << args, op_calls >>
           ELSE /\ args' = ns
                /\ op_calls' = op_calls + 1
                /\ pc' = IF ns.check THEN "ck_exists" ELSE "li_construct"
                /\ UNCHANGED exit_code
    /\ UNCHANGED << urlVars, script, argv, stdout, ret, escaped, env_audio,
                    env_model, model_loads, rec_created, chunks_read,
                    results, igVars >>

\* a function of the login script returns v after printing n lines
LgReturn(v, n) ==
    /\ ret' = v
    /\ stdout' = stdout \o [ i \in 1..n |-> Line ]
    /\ pc' = "lg_returned"

\* check_session: the session file is looked for first
CkExists ==
    /\ pc = "ck_exists"
    /\ IF ~session_file_exists(args.session)
       THEN LgReturn(FALSE, 1)
       ELSE pc' = "ck_construct" /\ UNCHANGED << ret, stdout >>
    /\ UNCHANGED << urlVars, script, argv, exit_code, op_calls, escaped,
                    trVars, igVars >>

\* loader = instaloader.Instaloader()
CkConstruct ==
    /\ pc = "ck_construct"
    /\ \E o \in Outcomes({"Exception"}) :
        IF o = "ok"
        THEN /\ loader' = "anonymous"
             /\ pc' = "ck_load"
             /\ UNCHANGED << ret, stdout, failures >>
        ELSE /\ failures' = failures \cup { << "construct", o >> }
             /\ LgReturn(FALSE, 1)
             /\ UNCHANGED loader
    /\ UNCHANGED << urlVars, script, argv, exit_code, op_calls, escaped,
                    trVars, session_files, session_loads, auth, saves,
                    login_tests >>
    /\ LgUnchangedIg

\* loader.load_session_from_file(session_name)
CkLoad ==
    /\ pc = "ck_load"
    /\ session_loads' = session_loads + 1
    /\ \E o \in Outcomes(ExcKinds) :
        IF o = "ok"
        THEN /\ loader' = "session"
             /\ pc' = "ck_test"
             /\ UNCHANGED << ret, stdout, failures >>
        ELSE /\ failures' = failures \cup { << "session_load", o >> }
             /\ LgReturn(FALSE, 1)
             /\ UNCHANGED loader
    /\ UNCHANGED << urlVars, script, argv, exit_code, op_calls, escaped,
                    trVars, session_files, auth, saves, login_tests >>
    /\ LgUnchangedIg

\* username = loader.test_login(): a name, None, or an exception
CkTest ==
    /\ pc = "ck_test"
    /\ login_tests' = login_tests + 1
    /\ \E o \in {"username", "no_username"} \cup ExcKinds :
        IF o = "username" THEN LgReturn(TRUE, 1) /\ UNCHANGED failures
        ELSE IF o = "no_username" THEN LgReturn(FALSE, 1) /\ UNCHANGED failures
        ELSE /\ failures' = failures \cup { << "test_login", o >> }
             /\ LgReturn(FALSE, 1)
    /\ UNCHANGED << urlVars, script, argv, exit_code, op_calls, escaped,
                    trVars, session_files, loader, session_loads, auth,
                    saves >>
    /\ LgUnchangedIg

LoginExcKinds ==
    { "BadCredentialsException", "ConnectionException",
      "TwoFactorAuthRequiredException", "Exception" }

\* login_to_instagram: loader = instaloader.Instaloader()
LiConstruct ==
    /\ pc = "li_construct"
    /\ \E o \in Outcomes({"Exception"}) :
        IF o = "ok"
        THEN /\ loader' = "anonymous"
             /\ pc' = "li_prompt"
             /\ UNCHANGED << ret, stdout, failures >>
        ELSE /\ failures' = failures \cup { << "construct", o >> }
             /\ LgReturn(FALSE, 1)
             /\ UNCHANGED loader
    /\ UNCHANGED << urlVars, script, argv, exit_code, op_calls, escaped,
                    trVars, session_files, session_loads, auth, saves,
                    login_tests >>
    /\ LgUnchangedIg

\* the username is asked for unless given, the password always (__main__
\* passes None); input and getpass may raise; "Attempting to log in"
LiPrompt ==
    /\ pc = "li_prompt"
    /\ \E o \in Outcomes({"Exception"}) :
        IF o = "ok"
        THEN /\ stdout' = Append(stdout, Line)
             /\ pc' = "li_login"
             /\ UNCHANGED << ret, failures >>
        ELSE /\ failures' = failures \cup { << "prompt", o >> }
             /\ LgReturn(FALSE, 1)
    /\ UNCHANGED << urlVars, script, argv, exit_code, op_calls, escaped,
                    trVars, session_files, loader, session_loads, auth,
                    saves, login_tests >>
    /\ LgUnchangedIg

\* loader.login(username, password) and the except clauses it can reach
LiLogin ==
    /\ pc = "li_login"
    /\ \E o \in Outcomes(LoginExcKinds) :
        IF o = "ok"
        THEN /\ auth' = "password"
             /\ pc' = "li_save"
             /\ UNCHANGED << ret, stdout, failures >>
        ELSE /\ failures' = failures \cup { << "login", o >> }
             /\ UNCHANGED auth
             /\ IF o = "TwoFactorAuthRequiredException"
                THEN /\ stdout' = Append(stdout, Line)
                     /\ pc' = "li_two_factor"
                     /\ UNCHANGED ret
                ELSE IF o = "ConnectionException"
                THEN LgReturn(FALSE, 2)
                ELSE LgReturn(FALSE, 1)
    /\ UNCHANGED << urlVars, script, argv, exit_code, op_calls, escaped,
                    trVars, session_files, loader, session_loads, saves,
                    login_tests >>
    /\ LgUnchangedIg

\* a two-factor handler whose save sits outside the try: it is reached
\* even when two_factor_login raised
LiTwoFactor_save_anyway ==
    /\ pc = "li_two_factor"
    /\ \E o \in Outcomes(ExcKinds) :
        IF o = "ok"
        THEN /\ auth' = "two_factor"
             /\ pc' = "li_save"
             /\ UNCHANGED << ret, stdout, failures >>
        ELSE /\ failures' = failures \cup { << "two_factor_login", o >> }
             /\ pc' = "li_save"
             /\ UNCHANGED << auth, ret, stdout >>
    /\ UNCHANGED << urlVars, script, argv, exit_code, op_calls, escaped,
                    trVars, session_files, loader, session_loads, saves,
                    login_tests >>
    /\ LgUnchangedIg

\* the code is asked for and loader.two_factor_login(code) called; the
\* inner except catches whatever either raises
LiTwoFactor ==
    /\ pc = "li_two_factor"
    /\ \E o \in Outcomes(ExcKinds) :
        IF o = "ok"
        THEN /\ auth' = "two_factor"
             /\ pc' = "li_save"
             /\ UNCHANGED << ret, stdout, failures >>
        ELSE /\ failures' = failures \cup { << "two_factor_login", o >> }
             /\ LgReturn(FALSE, 1)
             /\ UNCHANGED auth
    /\ UNCHANGED << urlVars, script, argv, exit_code, op_calls, escaped,
                    trVars, session_files, loader, session_loads, saves,
                    login_tests >>
    /\ LgUnchangedIg

\* loader.save_session_to_file(session_name) and the two "Login successful"
\* lines; a save that raises is caught by the except clause around it and
\* may have created the file already
LiSave ==
    /\ pc = "li_save"
    /\ \E o \in Outcomes({"Exception"}) :
        IF o = "ok"
        THEN /\ session_files' = session_files \cup { args.session }
             /\ saves' = saves + 1
             /\ LgReturn(TRUE, 2)
             /\ UNCHANGED failures
        ELSE /\ \E partial \in BOOLEAN :
                  session_files' = IF partial
                                   THEN session_files \cup { args.session }
                                   ELSE session_files
             /\ failures' = failures \cup { << "save", o >> }
             /\ LgReturn(FALSE, 1)
             /\ UNCHANGED saves
    /\ UNCHANGED << urlVars, script, argv, exit_code, op_calls, escaped,
                    trVars, loader, session_loads, auth, login_tests >>
    /\ LgUnchangedIg

\* sys.exit(0 if success else 1)
LgExit ==
    /\ pc = "lg_returned"
    /\ exit_code' = IF ret THEN 0 ELSE 1
    /\ pc' = "exited"
    /\ UNCHANGED << urlVars, script, argv, stdout, ret, op_calls, escaped,
                    trVars, igVars >>

LgNext ==
    \/ LgMain \/ CkExists \/ CkConstruct \/ CkLoad \/ CkTest
    \/ LiConstruct \/ LiPrompt \/ LiLogin \/ LiTwoFactor \/ LiSave \/ LgExit

Init ==
    /\ sc_caption = << >> /\ sc_media = << >> /\ url = << >>
    /\ \/ TrInit /\ IgIdle
       \/ CapInit /\ TrIdle
       \/ DlInit /\ TrIdle
       \/ LgInit /\ TrIdle

Next == TrNext \/ CapNext \/ DlNext \/ LgNext

Spec == Init /\ [][Next]_vars

\* ------------------------------------------------------------ C1

\* seg is the final '/'-delimited segment of path: non-empty, free of '/',
\* at the end of path or followed only by one trailing slash
IsFinalSegment(path, seg) ==
    LET body == IF EndsWith(path, << "/" >>)
                THEN SubSeq(path, 1, Len(path) - 1) ELSE path
    IN  /\ seg # << >>
        /\ \A k \in 1..Len(seg) : seg[k] # "/"
        /\ EndsWith(body, seg)
        /\ Len(body) = Len(seg) \/ body[Len(body) - Len(seg)] = "/"

SegmentsOf(path) ==
    { SubSeq(path, i, j) : i \in 1..Len(path), j \in 1..Len(path) }

\* C1: for every URL whose path has a non-empty final segment and at most
\* one trailing slash, both copies of extract_shortcode_from_url return
\* exactly that segment, and so the same value.
C1_ShortcodeIsFinalSegment ==
    \A seg \in SegmentsOf(urlparse_path(url)) :
        IsFinalSegment(urlparse_path(url), seg) =>
            /\ sc_caption # << >> => sc_caption = << seg >>
            /\ sc_media # << >> => sc_media = << seg >>
            /\ (sc_caption # << >> /\ sc_media # << >>) =>
                    sc_caption = sc_media

\* both copies have run on https://i/ab/ and returned "ab"
C1_Witness ==
    /\ url = << "h", ":", "/", "/", "i", "/", "a", "b", "/" >>
    /\ urlparse_path(url) = << "/", "a", "b", "/" >>
    /\ sc_caption = << << "a", "b" >> >>
    /\ sc_media = << << "a", "b" >> >>

\* ------------------------------------------------------------ C2

TrSucceeded ==
    /\ script = "transcribe"
    /\ pc \in {"tr_save", "tr_returned", "exited"}
    /\ "result" \in DOMAIN ret

Occurrences(w, list) == Cardinality({ i \in 1..Len(list) : list[i] = w })

RECURSIVE CapturedOccurrences(_, _)
\* how often word segment w occurs in the captured results rs
CapturedOccurrences(w, rs) ==
    IF rs = << >> THEN 0
    ELSE (IF "result" \in DOMAIN Head(rs)
          THEN Occurrences(w, Head(rs).result) ELSE 0)
         + CapturedOccurrences(w, Tail(rs))

\* C2: a successful transcription's 'result' list is non-decreasing in
\* 'start' and holds exactly the word segments of all captured partial
\* results and of the final result, each as often as it was captured.
C2_ResultSortedAndComplete ==
    TrSucceeded =>
        /\ \A i \in 1..(Len(ret.result) - 1) :
                ret.result[i].start <= ret.result[i + 1].start
        /\ \A w \in Words :
                Occurrences(w, ret.result) = CapturedOccurrences(w, results)

\* a run that captured two partial results and the final one, with word
\* segments emitted out of order across and within the results
C2_Witness ==
    /\ TrSucceeded /\ pc = "exited"
    /\ Len(results) = 3
    /\ "result" \in DOMAIN results[1] /\ "result" \in DOMAIN results[3]
    /\ Len(results[1].result) = 2
    /\ results[1].result[1].start > results[1].result[2].start
    /\ "result" \in DOMAIN results[2]
    /\ results[2].result[1].start > results[3].result[1].start
    /\ Len(ret.result) >= 3

\* ------------------------------------------------------------ C3

TrReturned ==
    /\ script = "transcribe"
    /\ pc = "tr_returned" \/ (pc = "exited" /\ exit_code = 0)

\* C3: when the audio path does not exist, transcribe_audio returns
\* error_type AUDIO_FILE_ERROR, whatever the model path names, and the
\* model is never loaded and no recognizer is created.
C3_MissingAudio ==
    (script = "transcribe" /\ ~env_audio.exists) =>
        /\ model_loads = 0
        /\ ~rec_created
        /\ pc \notin {"tr_check_model", "tr_load_model"}
        /\ TrReturned =>
            /\ "error_type" \in DOMAIN ret
            /\ ret.error_type = "AUDIO_FILE_ERROR"

\* the audio path is missing, the model directory is complete, and the
\* script has printed the AUDIO_FILE_ERROR record
C3_Witness ==
    /\ script = "transcribe" /\ pc = "exited" /\ exit_code = 0
    /\ ~env_audio.exists
    /\ env_model.exists /\ env_model.files = RequiredSet
    /\ ret.error_type = "AUDIO_FILE_ERROR"
    /\ model_loads = 0

\* ------------------------------------------------------------ C4

\* C4 as stated: a missing model path always gives MODEL_ERROR.
C4_Original ==
    (TrReturned /\ ~env_model.exists) =>
        /\ "error_type" \in DOMAIN ret
        /\ ret.error_type = "MODEL_ERROR"

\* C4, amended: when the model path does not exist the model is never
\* loaded; the returned error_type is MODEL_ERROR if the audio file passed
\* its check, and AUDIO_FILE_ERROR (the earlier check) if it did not.
C4_MissingModel ==
    (script = "transcribe" /\ ~env_model.exists) =>
        /\ model_loads = 0
        /\ pc # "tr_load_model"
        /\ TrReturned =>
            /\ "error_type" \in DOMAIN ret
            /\ ret.error_type = IF check_audio_file(env_audio)[1]
                                THEN "MODEL_ERROR" ELSE "AUDIO_FILE_ERROR"

\* a valid audio file, a missing model path, the MODEL_ERROR record printed
C4_Witness ==
    /\ script = "transcribe" /\ pc = "exited" /\ exit_code = 0
    /\ check_audio_file(env_audio)[1]
    /\ ~env_model.exists
    /\ ret.error_type = "MODEL_ERROR"
    /\ model_loads = 0

\* ------------------------------------------------------------ C5

JsonScripts == {"caption", "media", "transcribe"}

\* the command line names an audio path: a token that is neither an option
\* nor the value of one
TrAudioPathGiven ==
    \E i \in 1..Len(argv) :
        /\ argv[i] \notin Options
        /\ i = 1 \/ argv[i - 1] \notin Options

LacksRequiredArg ==
    \/ script = "caption" /\ Len(argv) < 1
    \/ script = "media" /\ Len(argv) < 2
    \/ script = "transcribe" /\ ~TrAudioPathGiven

PrintedFailureJson ==
    \E i \in 1..Len(stdout) :
        /\ stdout[i].type = "json"
        /\ "success" \in DOMAIN stdout[i].body
        /\ stdout[i].body.success = FALSE

FailedSteps == { f[1] : f \in failures }

MediaReturned ==
    /\ script = "media" /\ op_calls = 1
    /\ pc \in {"dl_returned", "exited"}
    /\ escaped = None

\* the download succeeded and left no entry ending in ".mp4"
NoVideoDownloaded ==
    /\ MediaReturned
    /\ temp_dir # "none"
    /\ "download" \notin FailedSteps
    /\ \A f \in temp_entries :
          ~(Len(f) >= 4 /\ f[Len(f) - 3] = "." /\ f[Len(f) - 2] = "m"
            /\ f[Len(f) - 1] = "p" /\ f[Len(f)] = "4")

\* C6: when the downloaded bundle holds no '.mp4' entry,
\* download_instagram_media returns success false with media_path and
\* caption null, and no file was written into output_dir: the copy never ran.
C6_NoVideo ==
    NoVideoDownloaded =>
        /\ ret.success = FALSE
        /\ ret.media_path = None
        /\ ret.caption = None
        /\ out_files = {}
        /\ copy_state = "none"

\* a bundle with a picture, a file named "mp4" and "v.mp4.x" was downloaded
\* and the failure has been printed
C6_Witness ==
    /\ NoVideoDownloaded /\ pc = "exited"
    /\ temp_entries = { << "p", ".", "j", "p", "g" >>, << "m", "p", "4" >>,
                        << "v", ".", "m", "p", "4", ".", "x" >> }
    /\ ret.error = "No video file found in the downloaded content"

\* ------------------------------------------------------------ C7

\* C7: once download_instagram_media has returned, a temporary directory it
\* created is gone, on every exit path; it is removed exactly once, and when
\* a video was found, only after the copy has finished or failed.
C7_TempDirRemoved ==
    script = "media" =>
        /\ cleanups <= 1
        /\ temp_dir = "exists" => cleanups = 0
        /\ temp_dir = "removed" => cleanups = 1
        /\ (pc \in {"dl_returned", "exited"} /\ temp_dir # "none") =>
                temp_dir = "removed"
        /\ (temp_dir = "removed" /\ video_file # NoFile) =>
                copy_state \in {"done", "failed"}

\* the copy raised, the directory was removed, the function returned
C7_Witness ==
    /\ script = "media" /\ pc = "dl_returned"
    /\ copy_state = "failed" /\ "copy" \in FailedSteps
    /\ temp_dir = "removed" /\ cleanups = 1
    /\ ret.success = FALSE

\* ------------------------------------------------------------ C8

FetchDone ==
    /\ script \in {"caption", "media"} /\ op_calls = 1
    /\ pc \in {"cap_returned", "dl_returned", "exited"}

\* the error string of each failure category
ErrorOf(kind) ==
    CASE kind = "ConnectionException" -> "Connection error"
      [] kind = "LoginRequiredException" -> "Login required"
      [] OTHER -> "str(e)"

\* C8 as stated: the two operations never raise; a failure of any step,
\* the session load included, gives a success-false record with the
\* classified error, and success true needs every step to have succeeded.
C8_Original ==
    /\ (script \in {"caption", "media"} /\ op_calls = 1) => escaped = None
    /\ FetchDone =>
        /\ "success" \in DOMAIN ret
        /\ failures # {} =>
              /\ ret.success = FALSE
              /\ \E f \in failures : ret.error = ErrorOf(f[2])
        /\ ret.success = TRUE => failures = {}

\* the failures that are not the swallowed session load
FatalFailures == { f \in failures : f[1] # "session_load" }

\* C8, amended: the two operations never raise; a failure of the session
\* load is dropped and the operation goes on without a session; a failure
\* of any other step gives a success-false record with the error classified
\* as connection, login-required or generic; success true needs every step
\* other than the session load to have succeeded.
C8_NeverRaises ==
    /\ (script \in {"caption", "media"} /\ op_calls = 1) => escaped = None
    /\ FetchDone =>
        /\ "success" \in DOMAIN ret
        /\ "error" \in DOMAIN ret <=> ret.success = FALSE
        /\ FatalFailures # {} =>
              /\ ret.success = FALSE
              /\ \E f \in FatalFailures : ret.error = ErrorOf(f[2])
        /\ ret.success = TRUE => FatalFailures = {}
        /\ Cardinality(FatalFailures) <= 1

\* the media download met a failed session load and then a failed copy
C8_Witness ==
    /\ FetchDone /\ script = "media" /\ pc = "exited"
    /\ \E k \in ExcKinds : << "session_load", k >> \in failures
    /\ << "copy", "Exception" >> \in failures
    /\ ret.success = FALSE /\ ret.error = "str(e)"

\* ------------------------------------------------------------ C9

JsonCount == Cardinality({ i \in 1..Len(stdout) : stdout[i].type = "json" })

\* C9: every run of the media download script with at least two arguments
\* prints exactly one JSON object and exits with code 0, whatever fails.
C9_AlwaysJsonAndExitZero ==
    (script = "media" /\ Len(argv) >= 2 /\ pc = "exited") =>
        /\ exit_code = 0
        /\ JsonCount = 1
        /\ escaped = None

\* ------------------------------------------------------------ C10

\* check_session was called for a session name that has no session file
CheckOfMissingSession ==
    /\ script = "login" /\ op_calls = 1
    /\ args.check
    /\ args.session \notin session_files

\* C10: check_session on a session name without a session file returns
\* False without raising and without creating a client, loading or testing
\* a session; the script then exits with code 1.
C10_MissingSession ==
    CheckOfMissingSession =>
        /\ loader = None
        /\ session_loads = 0
        /\ login_tests = 0
        /\ escaped = None
        /\ pc \in {"ck_exists", "lg_returned", "exited"}
        /\ pc = "lg_returned" => ret = FALSE
        /\ pc = "exited" => (ret = FALSE /\ exit_code = 1)

\* --check --session work, with only the default session on disk
C10_Witness ==
    /\ CheckOfMissingSession /\ pc = "exited"
    /\ args.session = "work" /\ session_files = {"default"}
    /\ exit_code = 1 /\ ret = FALSE
    /\ stdout = << Line >>

\* ------------------------------------------------------------ C11

\* login_to_instagram was called
LoginCalled == script = "login" /\ op_calls = 1 /\ ~args.check

LoginReturned == LoginCalled /\ pc \in {"lg_returned", "exited"}

\* the failure modes: the steps of login_to_instagram that end the call
LoginFailed ==
    \E f \in failures :
        \/ f[1] \in {"construct", "prompt", "two_factor_login", "save"}
        \/ f[1] = "login" /\ f[2] # "TwoFactorAuthRequiredException"

C11_State ==
    LoginCalled =>
        /\ saves <= 1
        /\ saves = 1 => auth \in {"password", "two_factor"}
        /\ saves = 1 => args.session \in session_files
        /\ auth = "two_factor" =>
              << "login", "TwoFactorAuthRequiredException" >> \in failures
        /\ auth = "password" => "login" \notin { f[1] : f \in failures }
        /\ LoginReturned =>
              /\ ret = TRUE <=> saves = 1
              /\ LoginFailed => (ret = FALSE /\ saves = 0)
              /\ ret = FALSE => LoginFailed
        /\ pc = "exited" => (exit_code = 0 <=> ret = TRUE)

\* the session files change only in a save step that follows a successful
\* authentication, and only by the file of the chosen session name
C11_Step ==
    (script = "login" /\ session_files' # session_files) =>
        /\ pc = "li_save"
        /\ auth \in {"password", "two_factor"}
        /\ session_files' = session_files \cup { args.session }

\* C11: login_to_instagram saves the session only after the password login
\* or the two-factor login that follows a two-factor challenge has
\* succeeded, at most once and under the chosen session name; it returns
\* True exactly when the save completed, every failure mode returns False
\* with no completed save, and the exit code is 0 exactly when it returned
\* True.
C11_SaveAfterAuthentication == [](C11_State) /\ [][C11_Step]_vars

\* a two-factor challenge was answered, the session "work" saved where
\* there was none, and the script exited with code 0
C11_Witness ==
    /\ LoginReturned /\ pc = "exited" /\ exit_code = 0
    /\ auth = "two_factor" /\ saves = 1 /\ ret = TRUE
    /\ args.session = "work" /\ session_files = {"work"}

\* ------------------------------------------------------------ C12

RECURSIVE NonEmptyTexts(_)
\* the texts of the captured results, in capture order, empty ones left out
NonEmptyTexts(rs) ==
    IF rs = << >> THEN << >>
    ELSE (IF "text" \in DOMAIN Head(rs) /\ Head(rs).text # << >>
          THEN << Head(rs).text >> ELSE << >>)
         \o NonEmptyTexts(Tail(rs))

\* C12: the text of a successful transcription is the non-empty captured
\* texts, partial results first and the final result last, joined by single
\* spaces; an empty text adds no leading, trailing or doubled space.
C12_TextSkipsEmpty ==
    TrSucceeded =>
        /\ ret.text = JoinSpace(NonEmptyTexts(results))
        /\ ret.text # << >> =>
              /\ ret.text[1] # " "
              /\ ret.text[Len(ret.text)] # " "
              /\ \A i \in 1..(Len(ret.text) - 1) :
                    ~(ret.text[i] = " " /\ ret.text[i + 1] = " ")

====
